---------------------------- MODULE Spec2Model ----------------------------
(***************************************************************************)
(* snapdir v1.0.0: capture of a directory tree into a JSON snapshot        *)
(* (cloneProject) and reconstruction of a tree from it (restoreProject).   *)
(*                                                                         *)
(* The implementation modelled is the one that carries the ignore rules,   *)
(* the size cap and the permission bits: package main of                   *)
(* src/cmd/main_test.go, lines 492-826 (the file holds the tests followed  *)
(* by the program).  src/cmd/main.go is an earlier revision of the same    *)
(* two functions without ignore rules, size cap, modes or destination      *)
(* check; it is not the subject of the specification.                      *)
(*                                                                         *)
(* Strings are sequences of one-character strings.  A file-system path is  *)
(* a sequence of names from the working directory.  Permission bits are    *)
(* the bits handed to the system call (before umask), as numbers           *)
(* (0755 = 493).  Only regular files and directories exist.                *)
(***************************************************************************)
EXTENDS Integers, Sequences, FiniteSets, TLC

(***************************************************************************)
(* Bounds of the model.                                                    *)
(***************************************************************************)
\* the longest pattern list handed to shouldIgnore in SpecMatch
MaxPatterns == 2
\* the most entries of a hand-written snapshot document
MaxDocLen == 2

(***************************************************************************)
(* Program constants (main_test.go:506-512).                               *)
(***************************************************************************)
version == <<"1", ".", "0", ".", "0">>
defaultPerms == 420
dirPerms == 493
maxFileSize == 100 * 1024 * 1024

(***************************************************************************)
(* String literals.                                                        *)
(***************************************************************************)
S_git == <<".", "g", "i", "t">>
S_gitignore == <<".", "g", "i", "t", "i", "g", "n", "o", "r", "e">>
S_src == <<"s", "r", "c">>
S_dst == <<"d", "s", "t">>
S_out == <<"o", "u", "t", ".", "j", "s", "o", "n">>
S_edit == <<"e", "d", "i", "t", ".", "j", "s", "o", "n">>
S_bad == <<"b", "a", "d", ".", "j", "s", "o", "n">>
S_nofile == <<"n", "o", "f", "i", "l", "e">>
S_a_txt == <<"a", ".", "t", "x", "t">>
S_b_txt == <<"b", ".", "t", "x", "t">>
S_d == <<"d">>
S_app_log == <<"a", "p", "p", ".", "l", "o", "g">>
S_node_modules == <<"n", "o", "d", "e", "_", "m", "o", "d", "u", "l", "e", "s">>
S_pkg_json == <<"p", "k", "g", ".", "j", "s", "o", "n">>
S_keep_txt == <<"k", "e", "e", "p", ".", "t", "x", "t">>
S_star_log == <<"*", ".", "l", "o", "g">>

\* the printable ASCII characters in code order, from 32
AsciiTable ==
  <<" ", "!", "\"", "#", "$", "%", "&", "'", "(", ")", "*", "+", ",", "-",
    ".", "/", "0", "1", "2", "3", "4", "5", "6", "7", "8", "9", ":", ";",
    "<", "=", ">", "?", "@", "A", "B", "C", "D", "E", "F", "G", "H", "I",
    "J", "K", "L", "M", "N", "O", "P", "Q", "R", "S", "T", "U", "V", "W",
    "X", "Y", "Z", "[", "\\", "]", "^", "_", "backquote", "a", "b", "c", "d", "e",
    "f", "g", "h", "i", "j", "k", "l", "m", "n", "o", "p", "q", "r", "s",
    "t", "u", "v", "w", "x", "y", "z", "{", "|", "}", "~">>

Code(c) == 31 + (CHOOSE i \in 1..Len(AsciiTable) : AsciiTable[i] = c)

(***************************************************************************)
(* package strings / path/filepath (Unix: the separator is "/").           *)
(***************************************************************************)
Drop(s, n) == SubSeq(s, n + 1, Len(s))

Take(s, n) == SubSeq(s, 1, n)

\* strings.HasPrefix
HasPrefix(s, prefix) ==
  Len(prefix) <= Len(s) /\ Take(s, Len(prefix)) = prefix

\* strings.Contains
Contains(s, substr) ==
  \E i \in 0..(Len(s) - Len(substr)) : SubSeq(s, i + 1, i + Len(substr)) = substr

\* filepath.ToSlash / filepath.FromSlash: the separator already is "/"
ToSlash(path) == path

FromSlash(path) == path

RECURSIVE StripTrailingSlashes(_)
StripTrailingSlashes(s) ==
  IF Len(s) > 0 /\ s[Len(s)] = "/" THEN StripTrailingSlashes(Take(s, Len(s) - 1)) ELSE s

\* the index of the last "/" of s, 0 if none
LastSlash(s) ==
  IF \E i \in 1..Len(s) : s[i] = "/"
  THEN CHOOSE i \in 1..Len(s) : s[i] = "/" /\ \A j \in (i + 1)..Len(s) : s[j] # "/"
  ELSE 0

\* filepath.Base
Base(path) ==
  IF path = <<>> THEN <<".">>
  ELSE LET p == StripTrailingSlashes(path)
           b == Drop(p, LastSlash(p))
       IN IF b = <<>> THEN <<"/">> ELSE b

(***************************************************************************)
(* filepath.Match(pattern, name): the shell pattern is read into terms     *)
(* (a term is a literal, ?, * or a character class), ErrBadPattern when    *)
(* it is malformed; the terms are then matched against all of name.        *)
(***************************************************************************)
\* getEsc: one possibly escaped class member at p[i]; next = 0 is ErrBadPattern
GetEsc(p, i) ==
  IF i > Len(p) \/ p[i] = "-" \/ p[i] = "]" THEN [c |-> "", next |-> 0]
  ELSE LET k == IF p[i] = "\\" THEN i + 1 ELSE i
       IN IF k > Len(p) \/ k + 1 > Len(p) THEN [c |-> "", next |-> 0]
          ELSE [c |-> p[k], next |-> k + 1]

\* the ranges of a character class from p[i] on; next = 0 is ErrBadPattern
RECURSIVE ClassRanges(_, _, _)
ClassRanges(p, i, ranges) ==
  IF i <= Len(p) /\ p[i] = "]" /\ Len(ranges) > 0
  THEN [ranges |-> ranges, next |-> i + 1]
  ELSE LET lo == GetEsc(p, i)
       IN IF lo.next = 0 THEN [ranges |-> <<>>, next |-> 0]
          ELSE IF p[lo.next] = "-"
               THEN LET hi == GetEsc(p, lo.next + 1)
                    IN IF hi.next = 0 THEN [ranges |-> <<>>, next |-> 0]
                       ELSE ClassRanges(p, hi.next, Append(ranges, <<lo.c, hi.c>>))
               ELSE ClassRanges(p, lo.next, Append(ranges, <<lo.c, lo.c>>))

\* the terms of pattern p from p[i] on; bad when the pattern is malformed
RECURSIVE Terms(_, _, _)
Terms(p, i, acc) ==
  IF i > Len(p) THEN [bad |-> FALSE, terms |-> acc]
  ELSE IF p[i] = "*" THEN Terms(p, i + 1, Append(acc, [t |-> "star", c |-> "", neg |-> FALSE, ranges |-> <<>>]))
  ELSE IF p[i] = "?" THEN Terms(p, i + 1, Append(acc, [t |-> "any", c |-> "", neg |-> FALSE, ranges |-> <<>>]))
  ELSE IF p[i] = "\\"
       THEN IF i + 1 > Len(p) THEN [bad |-> TRUE, terms |-> <<>>]
            ELSE Terms(p, i + 2, Append(acc, [t |-> "lit", c |-> p[i + 1], neg |-> FALSE, ranges |-> <<>>]))
  ELSE IF p[i] = "["
       THEN LET neg == i + 1 <= Len(p) /\ p[i + 1] = "^"
                cls == ClassRanges(p, IF neg THEN i + 2 ELSE i + 1, <<>>)
            IN IF cls.next = 0 THEN [bad |-> TRUE, terms |-> <<>>]
               ELSE Terms(p, cls.next, Append(acc, [t |-> "class", c |-> "", neg |-> neg, ranges |-> cls.ranges]))
  ELSE Terms(p, i + 1, Append(acc, [t |-> "lit", c |-> p[i], neg |-> FALSE, ranges |-> <<>>]))

\* whether one term (not a star) matches the character ch
TermMatches(term, ch) ==
  CASE term.t = "lit" -> term.c = ch
    [] term.t = "any" -> ch # "/"
    [] term.t = "class" ->
         (\E k \in 1..Len(term.ranges) :
            Code(term.ranges[k][1]) <= Code(ch) /\ Code(ch) <= Code(term.ranges[k][2]))
         # term.neg
    [] OTHER -> FALSE

\* whether terms[i..] match name[j..] entirely
RECURSIVE TermsMatch(_, _, _, _)
TermsMatch(terms, i, name, j) ==
  IF i > Len(terms) THEN j > Len(name)
  ELSE IF terms[i].t = "star"
       THEN \/ TermsMatch(terms, i + 1, name, j)
            \/ j <= Len(name) /\ name[j] # "/" /\ TermsMatch(terms, i, name, j + 1)
       ELSE j <= Len(name) /\ TermMatches(terms[i], name[j])
            /\ TermsMatch(terms, i + 1, name, j + 1)

\* filepath.Match: err is ErrBadPattern
Match(pattern, name) ==
  LET parsed == Terms(pattern, 1, <<>>)
  IN IF parsed.bad THEN [matched |-> FALSE, err |-> TRUE]
     ELSE [matched |-> TermsMatch(parsed.terms, 1, name, 1), err |-> FALSE]

(***************************************************************************)
(* shouldIgnore (main_test.go:534-551).                                    *)
(***************************************************************************)
RECURSIVE shouldIgnoreFrom(_, _, _)
\* mutant: the pattern is matched against the whole path, not its last name
RECURSIVE shouldIgnoreWholePath(_, _, _)
shouldIgnoreWholePath(path, patterns, i) ==
  IF i > Len(patterns) THEN FALSE
  ELSE LET m == Match(patterns[i], path)
       IN IF m.err THEN shouldIgnoreWholePath(path, patterns, i + 1)
          ELSE IF m.matched THEN TRUE
          ELSE IF Contains(ToSlash(path), patterns[i]) THEN TRUE
          ELSE shouldIgnoreWholePath(path, patterns, i + 1)

shouldIgnoreFrom(path, patterns, i) ==
  IF i > Len(patterns) THEN FALSE
  ELSE LET m == Match(patterns[i], Base(path))
       IN IF m.err THEN shouldIgnoreFrom(path, patterns, i + 1)
          ELSE IF m.matched THEN TRUE
          ELSE IF Contains(ToSlash(path), patterns[i]) THEN TRUE
          ELSE shouldIgnoreFrom(path, patterns, i + 1)

shouldIgnore(path, patterns) == shouldIgnoreFrom(path, patterns, 1)


(***************************************************************************)
(* More of package strings, bufio and path/filepath.                       *)
(***************************************************************************)
\* strings.Split(s, sep) for a one-character separator
RECURSIVE SplitFrom(_, _, _, _)
SplitFrom(s, sep, i, cur) ==
  IF i > Len(s) THEN <<cur>>
  ELSE IF s[i] = sep THEN <<cur>> \o SplitFrom(s, sep, i + 1, <<>>)
  ELSE SplitFrom(s, sep, i + 1, Append(cur, s[i]))

Split(s, sep) == SplitFrom(s, sep, 1, <<>>)

IsSpace(c) == c \in {" ", "\t", "\n", "\r"}

\* strings.TrimSpace
RECURSIVE TrimSpace(_)
TrimSpace(s) ==
  IF s = <<>> THEN s
  ELSE IF IsSpace(s[1]) THEN TrimSpace(Drop(s, 1))
  ELSE IF IsSpace(s[Len(s)]) THEN TrimSpace(Take(s, Len(s) - 1))
  ELSE s

\* bufio.ScanLines over a whole text: the lines without their end-of-line
\* marker (one trailing "\r" dropped); no empty last line after a final "\n"
ScanLines(text) ==
  LET parts == Split(text, "\n")
      kept == IF parts[Len(parts)] = <<>> THEN Take(parts, Len(parts) - 1) ELSE parts
      dropCR(l) == IF Len(l) > 0 /\ l[Len(l)] = "\r" THEN Take(l, Len(l) - 1) ELSE l
  IN [k \in 1..Len(kept) |-> dropCR(kept[k])]

\* filepath.Clean on the names of a relative path: no empty and no "." name,
\* "name/.." removed
RECURSIVE CleanNames(_, _)
CleanNames(parts, acc) ==
  IF parts = <<>> THEN acc
  ELSE IF parts[1] = <<>> \/ parts[1] = <<".">> THEN CleanNames(Drop(parts, 1), acc)
  ELSE IF parts[1] = <<".", ".">> /\ acc # <<>> /\ acc[Len(acc)] # <<".", ".">>
       THEN CleanNames(Drop(parts, 1), Take(acc, Len(acc) - 1))
  ELSE CleanNames(Drop(parts, 1), Append(acc, parts[1]))

\* the names of a path string ("" when empty, as filepath.Join drops it)
Names(path) == CleanNames(Split(path, "/"), <<>>)

\* filepath.Join(a, b) on names
Join(a, b) == CleanNames(a \o b, <<>>)

\* the path string of names: filepath.Rel's result below the base, "." for none
RECURSIVE SlashJoin(_)
SlashJoin(names) ==
  IF names = <<>> THEN <<".">>
  ELSE IF Len(names) = 1 THEN names[1]
  ELSE names[1] \o <<"/">> \o SlashJoin(Drop(names, 1))

\* byte-wise string order (the order of os.ReadDir's names)
RECURSIVE StrLess(_, _)
StrLess(a, b) ==
  IF b = <<>> THEN FALSE
  ELSE IF a = <<>> THEN TRUE
  ELSE IF a[1] = b[1] THEN StrLess(Drop(a, 1), Drop(b, 1))
  ELSE Code(a[1]) < Code(b[1])

RECURSIVE SortNames(_)
SortNames(set) ==
  IF set = {} THEN <<>>
  ELSE LET m == CHOOSE x \in set : \A y \in set \ {x} : StrLess(x, y)
       IN <<m>> \o SortNames(set \ {m})


(***************************************************************************)
(* State.                                                                  *)
(***************************************************************************)
VARIABLES
  fs,             \* the file system: path -> node, for every path that exists
  privileged,     \* whether the process may bypass permission bits (root)
  ignorePatterns, \* the process-wide extra patterns (main_test.go:516)
  pc,             \* "idle", "walk" (in cloneProject), "restore" (in restoreProject)
  args,           \* the arguments of the running or last call
  patterns,       \* cloneProject's patterns
  snapshot,       \* the ProjectSnapshot of the running or last call
  todo,           \* the nodes filepath.WalkDir has still to visit, in order
  visited,        \* history: the paths the walk function was called with
  reads,          \* history: the paths os.ReadFile was called with in cloneProject
  idx,            \* restoreProject's position in snapshot.Files
  ret,            \* the last call and the error it returned ("" is nil)
  probe           \* SpecMatch: the inputs and the result of shouldIgnore

vars == <<fs, privileged, ignorePatterns, pc, args, patterns, snapshot, todo,
          visited, reads, idx, ret, probe>>

(***************************************************************************)
(* File contents, the JSON document, FileInfo and ProjectSnapshot.         *)
(***************************************************************************)
\* a string of bytes: text followed by pad NUL bytes.  "xFF" is a byte that is
\* no valid UTF-8, "uFFFD" the replacement character
Str(text, pad) == [text |-> text, pad |-> pad]

EmptyStr == Str(<<>>, 0)

StrLen(s) == Len(s.text) + s.pad

\* the files array of a document holds objects; contents and mode may be absent
JsonFile(path, hasContents, contents, isDir, hasMode, mode) ==
  [path |-> path, has_contents |-> hasContents, contents |-> contents,
   is_dir |-> isDir, has_mode |-> hasMode, mode |-> mode]

NoDoc == [valid |-> FALSE, version |-> <<>>, files |-> <<>>]

\* type FileInfo (main_test.go:520-525)
FileInfo(path, contents, isDir, mode) ==
  [Path |-> path, Contents |-> contents, IsDir |-> isDir, Mode |-> mode]

\* type ProjectSnapshot (main_test.go:528-531)
ProjectSnapshot(v, files) == [Version |-> v, Files |-> files]

NoSnapshot == ProjectSnapshot(<<>>, <<>>)

\* encoding/json writes a string with every invalid byte replaced by U+FFFD
ToValidUTF8(text) == [k \in 1..Len(text) |-> IF text[k] = "xFF" THEN "uFFFD" ELSE text[k]]

\* json.MarshalIndent of a ProjectSnapshot: the omitempty fields (contents,
\* mode) are left out when they hold the zero value
MarshalIndent(snap) ==
  [valid |-> TRUE,
   version |-> ToValidUTF8(snap.Version),
   files |-> [k \in 1..Len(snap.Files) |->
     LET f == snap.Files[k]
     IN JsonFile(ToValidUTF8(f.Path),
                 f.Contents # EmptyStr,
                 IF f.Contents # EmptyStr
                 THEN Str(ToValidUTF8(f.Contents.text), f.Contents.pad) ELSE EmptyStr,
                 f.IsDir,
                 f.Mode # 0,
                 IF f.Mode # 0 THEN f.Mode ELSE 0)]]

\* mutant: the decoder does not read the mode field
UnmarshalNoMode(data) ==
  IF ~data.doc.valid THEN [err |-> TRUE, snapshot |-> NoSnapshot]
  ELSE [err |-> FALSE,
        snapshot |-> ProjectSnapshot(data.doc.version,
          [k \in 1..Len(data.doc.files) |->
            LET o == data.doc.files[k]
            IN FileInfo(o.path,
                        IF o.has_contents THEN o.contents ELSE EmptyStr,
                        o.is_dir,
                        0)])]

\* json.Unmarshal into a ProjectSnapshot: an absent field keeps the zero value
Unmarshal(data) ==
  IF ~data.doc.valid THEN [err |-> TRUE, snapshot |-> NoSnapshot]
  ELSE [err |-> FALSE,
        snapshot |-> ProjectSnapshot(data.doc.version,
          [k \in 1..Len(data.doc.files) |->
            LET o == data.doc.files[k]
            IN FileInfo(o.path,
                        IF o.has_contents THEN o.contents ELSE EmptyStr,
                        o.is_dir,
                        IF o.has_mode THEN o.mode ELSE 0)])]

(***************************************************************************)
(* The file system (package os).                                           *)
(***************************************************************************)
\* file data: bytes, or (doc.valid) the text of a JSON document
Bytes(text, pad) == [text |-> text, pad |-> pad, doc |-> NoDoc]

JsonData(doc) == [text |-> <<>>, pad |-> 0, doc |-> doc]

FileNode(mode, data) == [dir |-> FALSE, mode |-> mode, data |-> data]

DirNode(mode) == [dir |-> TRUE, mode |-> mode, data |-> Bytes(<<>>, 0)]

\* the working directory: it exists and the process may write to it
RootNode == DirNode(493)

NodeAt(f, p) == IF p = <<>> THEN RootNode ELSE f[p]

Present(f, p) == p = <<>> \/ p \in DOMAIN f

Parent(p) == Take(p, Len(p) - 1)

\* the owner's permission bits
MayRead(node) == privileged \/ (node.mode \div 256) % 2 = 1

MayWrite(node) == privileged \/ (node.mode \div 128) % 2 = 1

MaySearch(node) == privileged \/ (node.mode \div 64) % 2 = 1

\* the error of resolving p: "" when p exists and every directory on the way
\* to it may be searched
RECURSIVE Resolve(_, _, _)
Resolve(f, p, k) ==
  LET q == Take(p, k)
  IN IF ~Present(f, q) THEN "ENOENT"
     ELSE IF k = Len(p) THEN ""
     ELSE IF ~NodeAt(f, q).dir THEN "ENOTDIR"
     ELSE IF ~MaySearch(NodeAt(f, q)) THEN "EACCES"
     ELSE Resolve(f, p, k + 1)

\* os.Stat / os.Lstat: the error
Stat(f, p) == Resolve(f, p, 0)

\* os.Mkdir
Mkdir(f, p, perm) ==
  IF p = <<>> THEN [fs |-> f, err |-> "EEXIST"]
  ELSE IF Stat(f, Parent(p)) # "" THEN [fs |-> f, err |-> Stat(f, Parent(p))]
  ELSE IF ~NodeAt(f, Parent(p)).dir THEN [fs |-> f, err |-> "ENOTDIR"]
  ELSE IF ~MaySearch(NodeAt(f, Parent(p))) THEN [fs |-> f, err |-> "EACCES"]
  ELSE IF Present(f, p) THEN [fs |-> f, err |-> "EEXIST"]
  ELSE IF ~MayWrite(NodeAt(f, Parent(p))) THEN [fs |-> f, err |-> "EACCES"]
  ELSE [fs |-> [q \in DOMAIN f \cup {p} |-> IF q = p THEN DirNode(perm) ELSE f[q]],
        err |-> ""]

\* os.MkdirAll
RECURSIVE MkdirAll(_, _, _)
MkdirAll(f, p, perm) ==
  IF Stat(f, p) = ""
  THEN IF NodeAt(f, p).dir THEN [fs |-> f, err |-> ""] ELSE [fs |-> f, err |-> "ENOTDIR"]
  ELSE IF p = <<>> THEN [fs |-> f, err |-> "ENOENT"]
  ELSE LET up == MkdirAll(f, Parent(p), perm)
       IN IF up.err # "" THEN up
          ELSE LET made == Mkdir(up.fs, p, perm)
               IN IF made.err # "" /\ Stat(up.fs, p) = "" /\ NodeAt(up.fs, p).dir
                  THEN [fs |-> up.fs, err |-> ""]
                  ELSE made

\* os.WriteFile: a new file gets perm; an existing one is truncated and keeps
\* its permissions
WriteFile(f, p, data, perm) ==
  IF p = <<>> THEN [fs |-> f, err |-> "EISDIR"]
  ELSE IF Stat(f, Parent(p)) # "" THEN [fs |-> f, err |-> Stat(f, Parent(p))]
  ELSE IF ~NodeAt(f, Parent(p)).dir THEN [fs |-> f, err |-> "ENOTDIR"]
  ELSE IF ~MaySearch(NodeAt(f, Parent(p))) THEN [fs |-> f, err |-> "EACCES"]
  ELSE IF Present(f, p)
       THEN IF f[p].dir THEN [fs |-> f, err |-> "EISDIR"]
            ELSE IF ~MayWrite(f[p]) THEN [fs |-> f, err |-> "EACCES"]
            ELSE [fs |-> [f EXCEPT ![p] = FileNode(f[p].mode, data)], err |-> ""]
  ELSE IF ~MayWrite(NodeAt(f, Parent(p))) THEN [fs |-> f, err |-> "EACCES"]
  ELSE [fs |-> [q \in DOMAIN f \cup {p} |-> IF q = p THEN FileNode(perm, data) ELSE f[q]],
        err |-> ""]

\* os.ReadFile (and os.Open for reading)
ReadFile(f, p) ==
  IF Stat(f, p) # "" THEN [data |-> Bytes(<<>>, 0), err |-> Stat(f, p)]
  ELSE IF NodeAt(f, p).dir THEN [data |-> Bytes(<<>>, 0), err |-> "EISDIR"]
  ELSE IF ~MayRead(f[p]) THEN [data |-> Bytes(<<>>, 0), err |-> "EACCES"]
  ELSE [data |-> f[p].data, err |-> ""]

\* mutant: the names of a directory come in descending order
ReadDirDescending(f, p) ==
  IF Stat(f, p) # "" THEN [names |-> <<>>, err |-> Stat(f, p)]
  ELSE IF ~NodeAt(f, p).dir THEN [names |-> <<>>, err |-> "ENOTDIR"]
  ELSE IF ~MayRead(NodeAt(f, p)) THEN [names |-> <<>>, err |-> "EACCES"]
  ELSE LET up == SortNames({q[Len(q)] : q \in {r \in DOMAIN f : Len(r) > 0 /\ Parent(r) = p}})
       IN [names |-> [k \in 1..Len(up) |-> up[Len(up) + 1 - k]], err |-> ""]

\* os.ReadDir: the names in the directory, sorted
ReadDir(f, p) ==
  IF Stat(f, p) # "" THEN [names |-> <<>>, err |-> Stat(f, p)]
  ELSE IF ~NodeAt(f, p).dir THEN [names |-> <<>>, err |-> "ENOTDIR"]
  ELSE IF ~MayRead(NodeAt(f, p)) THEN [names |-> <<>>, err |-> "EACCES"]
  ELSE [names |-> SortNames({q[Len(q)] : q \in {r \in DOMAIN f : Len(r) > 0 /\ Parent(r) = p}}),
        err |-> ""]


(***************************************************************************)
(* loadGitignore (main_test.go:554-579).                                   *)
(***************************************************************************)
\* the lines bufio.Scanner yields for an open file: none for a directory (the
\* read fails); a last line that runs into the padding is longer than the
\* scanner's buffer, and the scan stops before it
ScannedLines(node) ==
  IF node.dir THEN <<>>
  ELSE IF node.data.pad > 0
       THEN LET parts == Split(node.data.text, "\n")
                whole == ScanLines(node.data.text \o <<"x">>)
            IN Take(whole, Len(parts) - 1)
  ELSE ScanLines(node.data.text)

\* mutant: the comment test is made on the line as read, not trimmed
IsRuleLineRaw(line) == ~(TrimSpace(line) = <<>> \/ HasPrefix(line, <<"#">>))

IsRuleLine(line) == ~(TrimSpace(line) = <<>> \/ HasPrefix(TrimSpace(line), <<"#">>))

loadGitignore(f, source) ==
  LET gitignorePath == Join(source, <<S_gitignore>>)
  IN IF Stat(f, gitignorePath) # "" \/ ~MayRead(NodeAt(f, gitignorePath))
     THEN <<S_git>>
     ELSE LET lines == SelectSeq(ScannedLines(NodeAt(f, gitignorePath)), IsRuleLine)
          IN <<S_git>> \o [k \in 1..Len(lines) |-> TrimSpace(lines[k])]

(***************************************************************************)
(* cloneProject (main_test.go:607-705).                                    *)
(***************************************************************************)
NoArgs == [op |-> "none", p1 |-> <<>>, p2 |-> <<>>]

NoRet == [op |-> "none", err |-> ""]

\* the call returns err: its locals are gone
Return(op, err) ==
  /\ pc' = "idle"
  /\ ret' = [op |-> op, err |-> err]
  /\ todo' = <<>>
  /\ idx' = 0

\* validatePath (main_test.go:589-604)
validatePath(f, path, mustExist) ==
  IF path = <<>> THEN "path cannot be empty"
  ELSE IF mustExist /\ Stat(f, Names(path)) = "ENOENT" THEN "path does not exist"
  ELSE IF mustExist /\ Stat(f, Names(path)) # "" THEN "cannot access path"
  ELSE ""

\* cloneProject up to the call of filepath.WalkDir (main_test.go:608-635)
CloneStart(source, outputFile) ==
  /\ pc = "idle"
  /\ args' = [op |-> "clone", p1 |-> source, p2 |-> outputFile]
  /\ visited' = <<>>
  /\ reads' = {}
  /\ UNCHANGED <<fs, privileged, ignorePatterns, probe>>
  /\ IF validatePath(fs, source, TRUE) # ""
     THEN /\ Return("clone", "invalid source path")
          /\ patterns' = <<>>
          /\ snapshot' = NoSnapshot
     ELSE IF ~NodeAt(fs, Names(source)).dir
     THEN /\ Return("clone", "source must be a directory")
          /\ patterns' = <<>>
          /\ snapshot' = NoSnapshot
     ELSE /\ patterns' = loadGitignore(fs, Names(source)) \o ignorePatterns
          /\ snapshot' = ProjectSnapshot(version, <<>>)
          /\ todo' = << <<>> >>
          /\ pc' = "walk"
          /\ idx' = 0
          /\ ret' = NoRet

\* mutant: an ignored directory is not skipped
ignoredResultNoSkip(isDir) == "nil"

\* what the walk function returns for an ignored node (main_test.go:649-655)
ignoredResult(isDir) == IF isDir THEN "SkipDir" ELSE "nil"

\* mutant: a read error is swallowed and the file recorded without contents
readFileEntrySwallow(f, path) ==
  IF StrLen(NodeAt(f, path).data) > maxFileSize
  THEN [keep |-> FALSE, err |-> "", contents |-> EmptyStr, read |-> FALSE]
  ELSE IF ReadFile(f, path).err # ""
  THEN [keep |-> TRUE, err |-> "", contents |-> EmptyStr, read |-> TRUE]
  ELSE [keep |-> TRUE, err |-> "", read |-> TRUE,
        contents |-> Str(ReadFile(f, path).data.text, ReadFile(f, path).data.pad)]

\* mutant: a file of exactly maxFileSize bytes is left out as well
readFileEntryOffByOne(f, path) ==
  IF StrLen(NodeAt(f, path).data) >= maxFileSize
  THEN [keep |-> FALSE, err |-> "", contents |-> EmptyStr, read |-> FALSE]
  ELSE IF ReadFile(f, path).err # ""
  THEN [keep |-> FALSE, err |-> "failed to read file", contents |-> EmptyStr, read |-> TRUE]
  ELSE [keep |-> TRUE, err |-> "", read |-> TRUE,
        contents |-> Str(ReadFile(f, path).data.text, ReadFile(f, path).data.pad)]

\* the walk function on a file that is not ignored: a file over the size cap
\* gets no entry and is not read; any other is read (main_test.go:668-680)
readFileEntry(f, path) ==
  IF StrLen(NodeAt(f, path).data) > maxFileSize
  THEN [keep |-> FALSE, err |-> "", contents |-> EmptyStr, read |-> FALSE]
  ELSE IF ReadFile(f, path).err # ""
  THEN [keep |-> FALSE, err |-> "failed to read file", contents |-> EmptyStr, read |-> TRUE]
  ELSE [keep |-> TRUE, err |-> "", read |-> TRUE,
        contents |-> Str(ReadFile(f, path).data.text, ReadFile(f, path).data.pad)]

\* the function cloneProject hands to filepath.WalkDir, called without an
\* error for the node at rel below source (main_test.go:635-686)
walkFn(f, source, rel, pats, snap) ==
  LET path == Join(source, rel)
      relPath == SlashJoin(rel)
      isDir == NodeAt(f, path).dir
      out(r, e, sn, rd) == [ret |-> r, err |-> e, snapshot |-> sn, read |-> rd]
      fileInfo == FileInfo(ToSlash(relPath), EmptyStr, isDir, NodeAt(f, path).mode)
      add(fi) == ProjectSnapshot(snap.Version, Append(snap.Files, fi))
  IN IF relPath = <<".">> THEN out("nil", "", snap, FALSE)
     ELSE IF shouldIgnore(relPath, pats)
     THEN out(ignoredResult(isDir), "", snap, FALSE)
     ELSE IF Stat(f, path) # "" THEN out("err", "failed to get file info", snap, FALSE)
     ELSE IF isDir THEN out("nil", "", add(fileInfo), FALSE)
     ELSE LET e == readFileEntry(f, path)
          IN IF e.err # "" THEN out("err", e.err, snap, e.read)
             ELSE IF ~e.keep THEN out("nil", "", snap, e.read)
             ELSE out("nil", "", add([fileInfo EXCEPT !.Contents = e.contents]), e.read)

\* one node of filepath.WalkDir: the function is called for it; a directory
\* that is not skipped is listed, its entries are walked next, in name order;
\* a directory that cannot be listed is handed to the function with the error
\* (main_test.go:636-638)
CloneVisit ==
  /\ pc = "walk"
  /\ todo # <<>>
  /\ LET rel == todo[1]
         source == Names(args.p1)
         path == Join(source, rel)
         r == walkFn(fs, source, rel, patterns, snapshot)
         ls == ReadDir(fs, path)
     IN /\ visited' = Append(visited, rel)
        /\ reads' = IF r.read THEN reads \cup {path} ELSE reads
        /\ snapshot' = r.snapshot
        /\ IF r.ret = "err" THEN Return("clone", r.err)
           ELSE IF r.ret = "SkipDir" \/ ~NodeAt(fs, path).dir
           THEN /\ todo' = Drop(todo, 1)
                /\ UNCHANGED <<pc, ret, idx>>
           ELSE IF ls.err # "" THEN Return("clone", "error accessing")
           ELSE /\ todo' = [k \in 1..Len(ls.names) |-> Append(rel, ls.names[k])] \o Drop(todo, 1)
                /\ UNCHANGED <<pc, ret, idx>>
  /\ UNCHANGED <<fs, privileged, ignorePatterns, args, patterns, probe>>

\* cloneProject after the walk: the snapshot is encoded and written
\* (main_test.go:688-704)
CloneFinish ==
  /\ pc = "walk"
  /\ todo = <<>>
  /\ LET w == WriteFile(fs, Names(args.p2), JsonData(MarshalIndent(snapshot)), defaultPerms)
     IN /\ fs' = w.fs
        /\ Return("clone", IF w.err # "" THEN "failed to write output file" ELSE "")
  /\ UNCHANGED <<privileged, ignorePatterns, args, patterns, snapshot, visited, reads, probe>>

(***************************************************************************)
(* restoreProject (main_test.go:708-761).                                  *)
(***************************************************************************)
\* mutant: a document that does not parse is taken for an empty snapshot
loadSnapshotLenient(f, configFile) ==
  IF validatePath(f, configFile, TRUE) # ""
  THEN [err |-> "invalid config file", snapshot |-> NoSnapshot]
  ELSE IF ReadFile(f, Names(configFile)).err # ""
  THEN [err |-> "failed to read config file", snapshot |-> NoSnapshot]
  ELSE [err |-> "", snapshot |-> Unmarshal(ReadFile(f, Names(configFile)).data).snapshot]

\* the document is validated, read and decoded (main_test.go:709-721)
loadSnapshot(f, configFile) ==
  IF validatePath(f, configFile, TRUE) # ""
  THEN [err |-> "invalid config file", snapshot |-> NoSnapshot]
  ELSE IF ReadFile(f, Names(configFile)).err # ""
  THEN [err |-> "failed to read config file", snapshot |-> NoSnapshot]
  ELSE IF Unmarshal(ReadFile(f, Names(configFile)).data).err
  THEN [err |-> "failed to parse config file", snapshot |-> NoSnapshot]
  ELSE [err |-> "", snapshot |-> Unmarshal(ReadFile(f, Names(configFile)).data).snapshot]

\* mutant: the destination is never found to exist
destinationExistsNever(f, destination) == FALSE

\* the destination check (main_test.go:725-727)
destinationExists(f, destination) == Stat(f, Names(destination)) = ""

\* restoreProject up to its loop over snapshot.Files (main_test.go:709-731)
RestoreStart(configFile, destination) ==
  /\ pc = "idle"
  /\ args' = [op |-> "restore", p1 |-> configFile, p2 |-> destination]
  /\ visited' = <<>>
  /\ reads' = {}
  /\ patterns' = <<>>
  /\ UNCHANGED <<privileged, ignorePatterns, probe>>
  /\ LET parsed == loadSnapshot(fs, configFile)
         made == MkdirAll(fs, Names(destination), dirPerms)
         fail(msg) == /\ Return("restore", msg)
                      /\ snapshot' = NoSnapshot
                      /\ fs' = fs
     IN IF parsed.err # "" THEN fail(parsed.err)
        ELSE IF destinationExists(fs, destination) THEN fail("destination already exists")
        ELSE IF made.err # ""
        THEN /\ Return("restore", "failed to create destination directory")
             /\ snapshot' = NoSnapshot
             /\ fs' = made.fs
        ELSE /\ fs' = made.fs
             /\ snapshot' = parsed.snapshot
             /\ pc' = "restore"
             /\ idx' = 1
             /\ todo' = <<>>
             /\ ret' = NoRet

\* mutant: a file entry's mode is used as stored, zero included
fileModeNoDefault(file) == file.Mode

\* the mode a file entry is written with (main_test.go:747-750)
fileMode(file) == IF file.Mode = 0 THEN defaultPerms ELSE file.Mode

\* mutant: on an error the loop body removes what is in the destination
restoreEntryCleanup(f, destination, file) ==
  LET path == Join(destination, Names(FromSlash(file.Path)))
      made == MkdirAll(f, path, file.Mode)
      up == MkdirAll(f, Parent(path), dirPerms)
      w == WriteFile(up.fs, path, Bytes(file.Contents.text, file.Contents.pad), fileMode(file))
      cleaned == [q \in {r \in DOMAIN f : Len(r) <= Len(destination)
                                          \/ Take(r, Len(destination)) # destination} |-> f[q]]
  IN IF file.IsDir
     THEN IF made.err # "" THEN [fs |-> cleaned, err |-> "failed to create directory"]
          ELSE [fs |-> made.fs, err |-> ""]
     ELSE IF up.err # "" THEN [fs |-> cleaned, err |-> "failed to create parent directory"]
          ELSE IF w.err # "" THEN [fs |-> cleaned, err |-> "failed to write file"]
          ELSE [fs |-> w.fs, err |-> ""]

\* what the loop body does with one entry (main_test.go:734-756)
restoreEntry(f, destination, file) ==
  LET path == Join(destination, Names(FromSlash(file.Path)))
      parentDir == Parent(path)
      mode == fileMode(file)
  IN IF file.IsDir
     THEN LET made == MkdirAll(f, path, file.Mode)
          IN [fs |-> made.fs,
              err |-> IF made.err # "" THEN "failed to create directory" ELSE ""]
     ELSE LET up == MkdirAll(f, parentDir, dirPerms)
              w == WriteFile(up.fs, path, Bytes(file.Contents.text, file.Contents.pad), mode)
          IN IF up.err # "" THEN [fs |-> up.fs, err |-> "failed to create parent directory"]
             ELSE [fs |-> w.fs, err |-> IF w.err # "" THEN "failed to write file" ELSE ""]

\* one iteration of the loop
RestoreEntry ==
  /\ pc = "restore"
  /\ idx <= Len(snapshot.Files)
  /\ LET r == restoreEntry(fs, Names(args.p2), snapshot.Files[idx])
     IN /\ fs' = r.fs
        /\ IF r.err # "" THEN Return("restore", r.err)
           ELSE /\ idx' = idx + 1
                /\ UNCHANGED <<pc, ret, todo>>
  /\ UNCHANGED <<privileged, ignorePatterns, args, patterns, snapshot, visited, reads, probe>>

\* the loop is over: restoreProject returns nil (main_test.go:759-760)
RestoreFinish ==
  /\ pc = "restore"
  /\ idx > Len(snapshot.Files)
  /\ Return("restore", "")
  /\ UNCHANGED <<fs, privileged, ignorePatterns, args, patterns, snapshot, visited, reads, probe>>


(***************************************************************************)
(* The initial states: a source tree at src, a hand-written document at    *)
(* edit.json, a file that is no JSON at bad.json; no out.json, no dst.     *)
(***************************************************************************)
Text1 == Bytes(<<"1">>, 0)

Text2 == Bytes(<<"2">>, 0)

\* a.txt = "1", d/b.txt = "2"
TreeFidelity ==
  (<<S_src>> :> DirNode(dirPerms))
  @@ (<<S_src, S_a_txt>> :> FileNode(defaultPerms, Text1))
  @@ (<<S_src, S_d>> :> DirNode(dirPerms))
  @@ (<<S_src, S_d, S_b_txt>> :> FileNode(defaultPerms, Text2))

RuleFileText ==
  <<"#", " ", "s", "k", "i", "p", "\n">> \o S_node_modules \o <<"\n">> \o S_star_log \o <<"\n">>

\* a rule file, app.log, node_modules/pkg.json, keep.txt
TreeScenario ==
  (<<S_src>> :> DirNode(dirPerms))
  @@ (<<S_src, S_gitignore>> :> FileNode(defaultPerms, Bytes(RuleFileText, 0)))
  @@ (<<S_src, S_app_log>> :> FileNode(defaultPerms, Text1))
  @@ (<<S_src, S_node_modules>> :> DirNode(dirPerms))
  @@ (<<S_src, S_node_modules, S_pkg_json>> :> FileNode(defaultPerms, Text2))
  @@ (<<S_src, S_keep_txt>> :> FileNode(defaultPerms, Text1))

\* a node with other permission bits, or a file with other bytes: empty, of
\* exactly maxFileSize bytes, one byte more, not valid UTF-8
Variants(node) ==
  IF node.dir
  THEN {DirNode(m) : m \in {365, 237, 429, 448, 0}}
  ELSE {FileNode(m, node.data) : m \in {292, 128, 0}}
       \cup {FileNode(node.mode, d) :
               d \in {Bytes(<<>>, 0), Bytes(<<"1">>, maxFileSize - 1),
                      Bytes(<<"1">>, maxFileSize), Bytes(<<"xFF">>, 0)}}

\* a.txt of exactly maxFileSize bytes, d/b.txt one byte longer
TreeBoundary ==
  [TreeFidelity EXCEPT
     ![<<S_src, S_a_txt>>] = FileNode(defaultPerms, Bytes(<<"1">>, maxFileSize - 1)),
     ![<<S_src, S_d, S_b_txt>>] = FileNode(defaultPerms, Bytes(<<"1">>, maxFileSize))]

SourceTrees ==
  {TreeFidelity, TreeScenario, TreeBoundary}
  \cup {[t EXCEPT ![p] = n] : <<t, p, n>> \in
          {<<t, p, n>> \in {TreeFidelity, TreeScenario}
                           \X (DOMAIN TreeFidelity \cup DOMAIN TreeScenario)
                           \X (UNION {Variants(TreeFidelity[q]) : q \in DOMAIN TreeFidelity}) :
             p \in DOMAIN t /\ n \in Variants(t[p])}}

S_d_b_txt == S_d \o <<"/">> \o S_b_txt

S_d_d == S_d \o <<"/">> \o S_d

\* the entries hand-written documents are made of
EntryPool ==
  {JsonFile(S_d, FALSE, EmptyStr, TRUE, TRUE, 493),
   JsonFile(S_d, FALSE, EmptyStr, TRUE, FALSE, 0),
   JsonFile(S_d, FALSE, EmptyStr, TRUE, TRUE, 365),
   JsonFile(S_d_d, FALSE, EmptyStr, TRUE, TRUE, 365),
   JsonFile(S_d_b_txt, TRUE, Str(<<"2">>, 0), FALSE, TRUE, 420),
   JsonFile(S_d_b_txt, TRUE, Str(<<"1">>, 0), FALSE, TRUE, 384),
   JsonFile(S_a_txt, TRUE, Str(<<"1">>, 0), FALSE, FALSE, 0),
   JsonFile(S_a_txt, FALSE, EmptyStr, FALSE, TRUE, 292),
   JsonFile(S_d, TRUE, Str(<<"1">>, 0), FALSE, TRUE, 420)}

Docs ==
  {[valid |-> TRUE, version |-> version, files |-> fl] :
     fl \in UNION {[1..n -> EntryPool] : n \in 0..MaxDocLen}}

DocDefault ==
  [valid |-> TRUE, version |-> version,
   files |-> <<JsonFile(S_a_txt, TRUE, Str(<<"1">>, 0), FALSE, TRUE, 420)>>]

BaseFiles(doc) ==
  (<<S_edit>> :> FileNode(defaultPerms, JsonData(doc)))
  @@ (<<S_bad>> :> FileNode(defaultPerms, Bytes(<<"x">>, 0)))

ExtraPatterns == {<<>>, << <<"?">> >>, << <<"[">>, <<"*", ".", "t", "x", "t">> >>}

InitIdle ==
  /\ pc = "idle"
  /\ args = NoArgs
  /\ patterns = <<>>
  /\ snapshot = NoSnapshot
  /\ todo = <<>>
  /\ visited = <<>>
  /\ reads = {}
  /\ idx = 0
  /\ ret = NoRet

NoProbe == [path |-> <<>>, patterns |-> <<>>, result |-> "none"]

\* any source tree and extra patterns, the default document
InitTrees ==
  /\ fs \in {t @@ BaseFiles(DocDefault) : t \in SourceTrees}
  /\ ignorePatterns \in ExtraPatterns
  /\ privileged \in BOOLEAN
  /\ probe = NoProbe
  /\ InitIdle

\* any hand-written document, the tree a.txt, d/b.txt
InitDocs ==
  /\ fs \in {TreeFidelity @@ BaseFiles(doc) : doc \in Docs}
  /\ ignorePatterns = <<>>
  /\ privileged \in BOOLEAN
  /\ probe = NoProbe
  /\ InitIdle

Init == InitTrees \/ InitDocs

\* the arguments the entry points are called with
SourceArgs == {<<>>, S_src, S_nofile, S_bad}

OutputArgs == {S_out}

ConfigArgs == {<<>>, S_nofile, S_bad, S_edit, S_out}

DestinationArgs == {S_dst, S_src}

Next ==
  \/ \E source \in SourceArgs, outputFile \in OutputArgs : CloneStart(source, outputFile)
  \/ CloneVisit
  \/ CloneFinish
  \/ \E configFile \in ConfigArgs, destination \in DestinationArgs :
       RestoreStart(configFile, destination)
  \/ RestoreEntry
  \/ RestoreFinish

Spec == Init /\ [][Next]_vars


(***************************************************************************)
(* SpecMatch: shouldIgnore applied to paths and pattern lists.             *)
(***************************************************************************)
PatternPool ==
  {S_git, S_star_log, S_node_modules, <<"[">>, <<"?">>, <<>>, S_d}

PathPool ==
  {<<"t", "e", "s", "t", ".", "l", "o", "g">>,
   S_node_modules \o <<"/">> \o S_pkg_json,
   S_src \o <<"/">> \o S_app_log,
   S_src \o <<"/">> \o S_git \o <<"/", "c">>,
   S_d_b_txt, S_a_txt, S_d, S_gitignore,
   <<"a", "[", "b">>, <<"x", "/", "y">>, S_d \o <<"/">>, <<>>}

InitMatch ==
  /\ probe \in {[path |-> p, patterns |-> l, result |-> "unset"] :
                  p \in PathPool, l \in UNION {[1..n -> PatternPool] : n \in 0..MaxPatterns}}
  /\ fs = TreeFidelity @@ BaseFiles(DocDefault)
  /\ ignorePatterns = <<>>
  /\ privileged = FALSE
  /\ InitIdle

ApplyShouldIgnore ==
  /\ probe.result = "unset"
  /\ probe' = [probe EXCEPT !.result =
                 IF shouldIgnore(probe.path, probe.patterns) THEN "true" ELSE "false"]
  /\ UNCHANGED <<fs, privileged, ignorePatterns, pc, args, patterns, snapshot, todo,
                 visited, reads, idx, ret>>

NextMatch == ApplyShouldIgnore

SpecMatch == InitMatch /\ [][NextMatch]_vars

\* the part of a path after its last "/"
FinalSegment(path) == Drop(path, LastSlash(path))

GlobMatches(pattern, name) == Match(pattern, name).matched

Malformed(pattern) == Match(pattern, <<>>).err

\* C2 as stated: shouldIgnore(p, P) is true exactly when some pattern of P
\* glob-matches the final segment of p or occurs in p as a substring.
C2_Original ==
  probe.result # "unset" =>
    ((probe.result = "true") <=>
       \E k \in 1..Len(probe.patterns) :
          \/ GlobMatches(probe.patterns[k], FinalSegment(probe.path))
          \/ Contains(probe.path, probe.patterns[k]))

\* C2 amended: shouldIgnore(p, P) is true exactly when some well-formed pattern
\* of P glob-matches the base name of p (filepath.Base: the final segment with
\* trailing slashes dropped, "." for the empty path) or occurs in p as a
\* substring; a malformed pattern is skipped, also when it occurs in p; false
\* for empty P.
C2_Amended ==
  probe.result # "unset" =>
    /\ (probe.result = "true") <=>
         \E k \in 1..Len(probe.patterns) :
            /\ ~Malformed(probe.patterns[k])
            /\ \/ GlobMatches(probe.patterns[k], Base(probe.path))
               \/ Contains(probe.path, probe.patterns[k])
    /\ probe.patterns = <<>> => probe.result = "false"

\* a path ignored although no pattern matches its final segment, next to a
\* malformed pattern that occurs in it and is skipped
C2_Witness ==
  /\ probe.result = "true"
  /\ \A k \in 1..Len(probe.patterns) :
       ~GlobMatches(probe.patterns[k], FinalSegment(probe.path))
  /\ \E k \in 1..Len(probe.patterns) :
       Malformed(probe.patterns[k]) /\ Contains(probe.path, probe.patterns[k])


(***************************************************************************)
(* Properties of Spec.                                                     *)
(***************************************************************************)
\* this step is a call of restoreProject / of cloneProject
CallsRestore == pc = "idle" /\ args'.op = "restore"

CallsClone == pc = "idle" /\ args'.op = "clone"

\* the names in directory p
Children(f, p) == {q \in DOMAIN f : Len(q) > 0 /\ Parent(q) = p}

\* C1: a call of restoreProject whose destination exists returns an error and
\* leaves every path of the file system as it was, whatever the document.
C1_ExistingDestinationUntouched ==
  [][(CallsRestore /\ Present(fs, Names(args'.p2)))
       => (fs' = fs /\ pc' = "idle" /\ ret'.op = "restore" /\ ret'.err # "")]_vars

\* restoreProject has refused a readable, well-formed document because dst,
\* an empty directory, exists
C1_Witness ==
  /\ ret = [op |-> "restore", err |-> "destination already exists"]
  /\ args.p2 = S_dst
  /\ <<S_dst>> \in DOMAIN fs /\ fs[<<S_dst>>].dir
  /\ Children(fs, <<S_dst>>) = {}
  /\ Len(Unmarshal(fs[Names(args.p1)].data).snapshot.Files) > 0

\* C8: a call of restoreProject with an empty document name, a missing
\* document or one that does not decode returns an error and leaves the file
\* system as it was: no destination, no entry.
C8_BadDocumentNoMutation ==
  [][(CallsRestore
      /\ \/ args'.p1 = <<>>
         \/ ~Present(fs, Names(args'.p1))
         \/ ~NodeAt(fs, Names(args'.p1)).data.doc.valid)
       => (fs' = fs /\ pc' = "idle" /\ ret'.op = "restore" /\ ret'.err # "")]_vars

\* restoreProject has refused bad.json, which is no JSON, for a destination
\* that does not exist
C8_Witness ==
  /\ ret = [op |-> "restore", err |-> "failed to parse config file"]
  /\ args.p1 = S_bad /\ args.p2 = S_dst
  /\ <<S_dst>> \notin DOMAIN fs


(***************************************************************************)
(* Capture.                                                                *)
(***************************************************************************)
\* cloneProject has returned nil
CloneOk == pc = "idle" /\ ret = [op |-> "clone", err |-> ""]

\* the paths below directory source, relative to it
Below(f, source) ==
  {Drop(q, Len(source)) : q \in {r \in DOMAIN f : Len(r) > Len(source) /\ Take(r, Len(source)) = source}}

\* the ignore rules match the relative path rel
Ignored(rel, pats) == shouldIgnore(SlashJoin(rel), pats)

\* rel lies below a directory the ignore rules match
UnderIgnored(rel, pats) == \E k \in 1..(Len(rel) - 1) : Ignored(Take(rel, k), pats)

OverCap(node) == ~node.dir /\ StrLen(node.data) >= maxFileSize + 1

SnapshotPaths == {snapshot.Files[k].Path : k \in 1..Len(snapshot.Files)}

PathList(snap) == [k \in 1..Len(snap.Files) |-> snap.Files[k].Path]

\* C4: nothing at or below an ignored directory is recorded and nothing below
\* it is handed to the walk function; an ignored file alone is left out, so a
\* successful capture records every other path of the source that is within
\* the size cap.  For the rule file "# skip", "node_modules", "*.log" and the
\* source app.log, node_modules/pkg.json, keep.txt the snapshot is keep.txt.
C4_IgnorePrunes ==
  (args.op = "clone" /\ (pc = "walk" \/ CloneOk)) =>
    /\ \A i \in 1..Len(visited) : ~UnderIgnored(visited[i], patterns)
    /\ \A k \in 1..Len(snapshot.Files) : ~shouldIgnore(snapshot.Files[k].Path, patterns)
    /\ CloneOk =>
         \A rel \in Below(fs, Names(args.p1)) :
            (~Ignored(rel, patterns) /\ ~UnderIgnored(rel, patterns)
             /\ ~OverCap(fs[Join(Names(args.p1), rel)]))
              => SlashJoin(rel) \in SnapshotPaths
    /\ (CloneOk /\ ignorePatterns = <<>>
        /\ \A q \in DOMAIN TreeScenario : q \in DOMAIN fs /\ fs[q] = TreeScenario[q])
         => PathList(snapshot) = <<S_keep_txt>>

\* a capture has succeeded without visiting or recording a file that matches
\* no rule itself but lies in an ignored directory, and has recorded a sibling
\* of that directory
C4_Witness ==
  /\ CloneOk
  /\ \E rel \in Below(fs, Names(args.p1)) :
       /\ ~Ignored(rel, patterns) /\ UnderIgnored(rel, patterns)
       /\ SlashJoin(rel) \notin SnapshotPaths
       /\ \A i \in 1..Len(visited) : visited[i] # rel
  /\ S_a_txt \in SnapshotPaths

\* an I/O error on the node at path: its stat, the read of a file within the
\* size cap, the listing of a directory
IOError(f, path) ==
  \/ Stat(f, path) # ""
  \/ ~NodeAt(f, path).dir /\ ~OverCap(NodeAt(f, path)) /\ ReadFile(f, path).err # ""
  \/ NodeAt(f, path).dir /\ ReadDir(f, path).err # ""

\* C5: cloneProject returns an error and leaves the file system (hence the
\* output document) as it was when the source is empty, missing or no
\* directory, and when an I/O error occurs on a node that is not ignored; the
\* walk then ends at that node.
C5_CaptureFailsClosed ==
  /\ [][(CallsClone
         /\ \/ args'.p1 = <<>>
            \/ ~Present(fs, Names(args'.p1))
            \/ ~NodeAt(fs, Names(args'.p1)).dir)
          => (ret'.op = "clone" /\ ret'.err # "" /\ pc' = "idle" /\ fs' = fs)]_vars
  /\ [][(pc = "walk" /\ todo # <<>>
         /\ (todo[1] = <<>> \/ ~Ignored(todo[1], patterns))
         /\ IOError(fs, Join(Names(args.p1), todo[1])))
          => (ret'.op = "clone" /\ ret'.err # "" /\ pc' = "idle" /\ fs' = fs
              /\ todo' = <<>> /\ visited' = Append(visited, todo[1]))]_vars

\* a capture has failed on a file it could not read; no document was written
\* and a later node of the source was never visited
C5_Witness ==
  /\ pc = "idle"
  /\ ret = [op |-> "clone", err |-> "failed to read file"]
  /\ <<S_out>> \notin DOMAIN fs
  /\ \E rel \in Below(fs, Names(args.p1)) :
       /\ ~Ignored(rel, patterns) /\ ~UnderIgnored(rel, patterns)
       /\ \A i \in 1..Len(visited) : visited[i] # rel

\* C6: the walk function, on a file that is not ignored: of exactly
\* maxFileSize bytes (and readable), it appends an entry with all of the
\* content; of maxFileSize+1 bytes or more, it appends nothing and does not
\* read the file; either way the walk goes on with the next node.
C6_SizeCapBoundary ==
  [][(pc = "walk" /\ todo # <<>> /\ todo[1] # <<>> /\ ~Ignored(todo[1], patterns)
      /\ Stat(fs, Join(Names(args.p1), todo[1])) = ""
      /\ ~NodeAt(fs, Join(Names(args.p1), todo[1])).dir)
       => LET path == Join(Names(args.p1), todo[1])
              node == fs[path]
          IN /\ (StrLen(node.data) = maxFileSize /\ MayRead(node)) =>
                  /\ snapshot'.Files =
                       Append(snapshot.Files,
                              FileInfo(SlashJoin(todo[1]), Str(node.data.text, node.data.pad),
                                       FALSE, node.mode))
                  /\ pc' = "walk" /\ todo' = Drop(todo, 1) /\ ret' = ret
             /\ StrLen(node.data) >= maxFileSize + 1 =>
                  /\ snapshot' = snapshot /\ reads' = reads
                  /\ pc' = "walk" /\ todo' = Drop(todo, 1) /\ ret' = ret]_vars

\* a capture has succeeded with a.txt, of exactly maxFileSize bytes, recorded
\* in full and d/b.txt, one byte longer, neither recorded nor read
C6_Witness ==
  /\ CloneOk
  /\ \E k \in 1..Len(snapshot.Files) :
       /\ snapshot.Files[k].Path = S_a_txt
       /\ StrLen(snapshot.Files[k].Contents) = maxFileSize
       /\ snapshot.Files[k].Contents = Str(fs[<<S_src, S_a_txt>>].data.text,
                                           fs[<<S_src, S_a_txt>>].data.pad)
  /\ StrLen(fs[<<S_src, S_d, S_b_txt>>].data) = maxFileSize + 1
  /\ S_d_b_txt \notin SnapshotPaths
  /\ <<S_src, S_d, S_b_txt>> \notin reads
  /\ S_d \in SnapshotPaths

NoDuplicatePaths ==
  \A i, j \in 1..Len(snapshot.Files) :
     snapshot.Files[i].Path = snapshot.Files[j].Path => i = j

\* C7 as stated: after a successful capture the snapshot's paths are exactly
\* the visited paths (root excluded) the ignore rules do not match, none twice.
C7_Original ==
  CloneOk =>
    /\ SnapshotPaths =
         {SlashJoin(visited[i]) : i \in {j \in 1..Len(visited) :
            visited[j] # <<>> /\ ~Ignored(visited[j], patterns)}}
    /\ NoDuplicatePaths

\* C7 amended: after a successful capture the snapshot's paths are exactly the
\* visited paths (root excluded) that the ignore rules do not match and that
\* are not files over the size cap, none twice.
C7_Amended ==
  CloneOk =>
    /\ SnapshotPaths =
         {SlashJoin(visited[i]) : i \in {j \in 1..Len(visited) :
            /\ visited[j] # <<>>
            /\ ~Ignored(visited[j], patterns)
            /\ ~OverCap(fs[Join(Names(args.p1), visited[j])])}}
    /\ NoDuplicatePaths

\* a capture has succeeded having visited a file over the size cap that is
\* not ignored and not in the snapshot, and the snapshot is not empty
C7_Witness ==
  /\ CloneOk
  /\ snapshot.Files # <<>>
  /\ \E i \in 1..Len(visited) :
       /\ visited[i] # <<>>
       /\ ~Ignored(visited[i], patterns)
       /\ OverCap(fs[Join(Names(args.p1), visited[i])])
       /\ SlashJoin(visited[i]) \notin SnapshotPaths


(***************************************************************************)
(* Restore.                                                                *)
(***************************************************************************)
\* this step is the loop body on a directory entry / on a file entry
RestoresDirEntry == pc = "restore" /\ idx <= Len(snapshot.Files) /\ snapshot.Files[idx].IsDir

RestoresFileEntry == pc = "restore" /\ idx <= Len(snapshot.Files) /\ ~snapshot.Files[idx].IsDir

\* where the entry at idx goes
EntryPath == Join(Names(args.p2), Names(snapshot.Files[idx].Path))

\* C9 as stated: every directory the loop body creates for a directory entry
\* (the entry's own and its missing ancestors) has the entry's stored mode, or
\* the default directory mode when the stored mode is zero or absent.
C9_DirectoryMode ==
  [][RestoresDirEntry =>
       \A q \in DOMAIN fs' \ DOMAIN fs :
          /\ fs'[q].dir
          /\ fs'[q].mode = IF snapshot.Files[idx].Mode # 0
                           THEN snapshot.Files[idx].Mode ELSE dirPerms]_vars

\* C10 as stated: the loop body on a file entry creates every missing parent
\* directory with the default directory mode and, when it succeeds, leaves at
\* the entry's path a file with the entry's content and with the stored mode,
\* or the default file mode when the stored mode is zero or absent.
C10_Original ==
  [][RestoresFileEntry =>
       /\ \A q \in (DOMAIN fs' \ DOMAIN fs) \ {EntryPath} :
             fs'[q].dir /\ fs'[q].mode = dirPerms
       /\ idx' = idx + 1 =>
            /\ EntryPath \in DOMAIN fs'
            /\ fs'[EntryPath] =
                 FileNode(IF snapshot.Files[idx].Mode # 0
                          THEN snapshot.Files[idx].Mode ELSE defaultPerms,
                          Bytes(snapshot.Files[idx].Contents.text,
                                snapshot.Files[idx].Contents.pad))]_vars

\* C10 amended: the loop body on a file entry creates every missing parent
\* directory with the default directory mode and, when it succeeds, leaves at
\* the entry's path a file with exactly the entry's content; a file it creates
\* has the stored mode, or the default file mode when the stored mode is zero
\* or absent; a file that was already there (an earlier entry of the same
\* path) keeps its permission bits.
C10_Amended ==
  [][RestoresFileEntry =>
       /\ \A q \in (DOMAIN fs' \ DOMAIN fs) \ {EntryPath} :
             fs'[q].dir /\ fs'[q].mode = dirPerms
       /\ idx' = idx + 1 =>
            /\ EntryPath \in DOMAIN fs'
            /\ fs'[EntryPath] =
                 FileNode(IF EntryPath \in DOMAIN fs THEN fs[EntryPath].mode
                          ELSE IF snapshot.Files[idx].Mode # 0
                          THEN snapshot.Files[idx].Mode ELSE defaultPerms,
                          Bytes(snapshot.Files[idx].Contents.text,
                                snapshot.Files[idx].Contents.pad))]_vars

\* the loop has written a file entry without a stored mode: the file has the
\* default file mode and the entry's content
C10_Witness ==
  /\ pc = "restore" /\ idx = 2
  /\ ~snapshot.Files[1].IsDir /\ snapshot.Files[1].Mode = 0
  /\ Join(Names(args.p2), Names(snapshot.Files[1].Path)) \in DOMAIN fs
  /\ fs[Join(Names(args.p2), Names(snapshot.Files[1].Path))] =
       FileNode(defaultPerms, Bytes(snapshot.Files[1].Contents.text,
                                    snapshot.Files[1].Contents.pad))

\* the matched, not pruned paths of the source, by the rules cloneProject loads
Kept(f, source) ==
  LET pats == loadGitignore(f, source) \o ignorePatterns
  IN {rel \in Below(f, source) : ~Ignored(rel, pats) /\ ~UnderIgnored(rel, pats)}

\* the tree at b holds exactly the kept paths of the tree at a, each with the
\* same directory flag and, for a file, the same bytes
SameTree(f, a, b) ==
  /\ Below(f, b) = Kept(f, a)
  /\ \A rel \in Kept(f, a) :
       /\ f[Join(b, rel)].dir = f[Join(a, rel)].dir
       /\ ~f[Join(a, rel)].dir => f[Join(b, rel)].data = f[Join(a, rel)].data

\* C3 as stated, here only for sources whose files hold valid UTF-8 text (the
\* encoder is known not to keep other bytes): when the document captured from
\* a source whose files are within the size cap has been restored into a
\* destination that did not exist, restoreProject has returned nil and the
\* destination holds exactly the non-ignored paths of the source, with the
\* same directory flags and file contents.
C3_RoundTrip ==
  (/\ pc = "idle" /\ ret.op = "restore"
   /\ args.p1 = S_out /\ args.p2 = S_dst
   /\ <<S_out>> \in DOMAIN fs
   /\ ret.err # "destination already exists"
   /\ \A rel \in Below(fs, <<S_src>>) :
        /\ ~OverCap(fs[Join(<<S_src>>, rel)])
        /\ \A k \in 1..Len(fs[Join(<<S_src>>, rel)].data.text) :
             fs[Join(<<S_src>>, rel)].data.text[k] # "xFF")
    => (ret.err = "" /\ SameTree(fs, <<S_src>>, <<S_dst>>))


(***************************************************************************)
(* The encoded document.                                                   *)
(***************************************************************************)
\* the document cloneProject has just written
WrittenDoc == fs[Names(args.p2)].data.doc

\* C11 as stated: in the document a successful capture has written, the
\* contents field is present for every entry that is not a directory, an
\* empty file included, and absent for every directory entry.
C11_ContentsPresent ==
  CloneOk =>
    \A k \in 1..Len(WrittenDoc.files) :
       WrittenDoc.files[k].has_contents <=> ~WrittenDoc.files[k].is_dir


(***************************************************************************)
(* SpecLoad: loadGitignore applied, twice, to a source directory with or   *)
(* without a rule file.                                                    *)
(***************************************************************************)
\* the most lines of a rule file
MaxRuleLines == 2

\* bufio.MaxScanTokenSize: a line of this many bytes does not fit the scanner
MaxScanTokenSize == 64 * 1024

LinePool ==
  {<<>>, <<" ", "\t">>, <<"#", "c">>, <<" ", "#", "c">>, S_d,
   <<" ">> \o S_star_log \o <<" ">>, S_node_modules \o <<"\r">>}

\* the text of lines, each ended by "\n", the last one only when final
RECURSIVE JoinLines(_, _)
JoinLines(lines, final) ==
  IF lines = <<>> THEN <<>>
  ELSE IF Len(lines) = 1 THEN lines[1] \o (IF final THEN <<"\n">> ELSE <<>>)
  ELSE lines[1] \o <<"\n">> \o JoinLines(Drop(lines, 1), final)

RuleTexts ==
  {JoinLines(l, final) : l \in UNION {[1..n -> LinePool] : n \in 0..MaxRuleLines},
                         final \in BOOLEAN}

\* the rule file: readable, unreadable, or ending in a line too long to scan
RuleFiles ==
  {FileNode(m, Bytes(t, 0)) : m \in {defaultPerms, 0}, t \in RuleTexts}
  \cup {FileNode(defaultPerms, Bytes(t, MaxScanTokenSize)) : t \in RuleTexts}

InitLoad ==
  /\ fs \in {(<<S_src>> :> DirNode(dirPerms))}
            \cup {(<<S_src>> :> DirNode(dirPerms)) @@ (<<S_src, S_gitignore>> :> n) :
                    n \in RuleFiles}
  /\ ignorePatterns = <<>>
  /\ privileged \in BOOLEAN
  /\ probe = NoProbe
  /\ InitIdle

\* a call of loadGitignore(src): patterns holds its result, probe.patterns
\* the result of the call before
ApplyLoadGitignore ==
  /\ probe.result \in {"none", "once"}
  /\ patterns' = loadGitignore(fs, Names(S_src))
  /\ probe' = [path |-> S_src, patterns |-> patterns,
               result |-> IF probe.result = "none" THEN "once" ELSE "twice"]
  /\ UNCHANGED <<fs, privileged, ignorePatterns, pc, args, snapshot, todo,
                 visited, reads, idx, ret>>

NextLoad == ApplyLoadGitignore

SpecLoad == InitLoad /\ [][NextLoad]_vars

RulePath == <<S_src, S_gitignore>>

\* the lines of a file's bytes; "NUL" stands for a run of NUL bytes
FileLines(data) ==
  ScanLines(data.text \o (IF data.pad > 0 THEN <<"NUL">> ELSE <<>>))

\* the lines that are not blank after trimming and no comment, trimmed
RuleLines(lines) ==
  LET keep(l) == TrimSpace(l) # <<>> /\ TrimSpace(l)[1] # "#"
      kept == SelectSeq(lines, keep)
  IN [k \in 1..Len(kept) |-> TrimSpace(kept[k])]

LinesScanned(data) ==
  IF data.pad >= MaxScanTokenSize
  THEN Take(FileLines(data), Len(FileLines(data)) - 1)
  ELSE FileLines(data)

MaxSnapLen == 2

\* well-formed entries: a relative path, no content on a directory
SnapEntries ==
  {FileInfo(p, c, FALSE, m) :
     p \in {S_a_txt, S_d_b_txt},
     c \in {EmptyStr, Str(<<"1">>, 0), Str(<<"1", "xFF">>, 0)},
     m \in {0, defaultPerms}}
  \cup {FileInfo(p, EmptyStr, TRUE, m) : p \in {S_d, S_d_d}, m \in {0, dirPerms}}

Snapshots ==
  {ProjectSnapshot(version, fl) :
     fl \in UNION {[1..n -> SnapEntries] : n \in 0..MaxSnapLen}}

InitCodec ==
  /\ snapshot \in Snapshots
  /\ fs = TreeFidelity @@ BaseFiles(DocDefault)
  /\ ignorePatterns = <<>>
  /\ privileged = FALSE
  /\ probe = NoProbe
  /\ pc = "idle" /\ args = NoArgs /\ patterns = <<>> /\ todo = <<>>
  /\ visited = <<>> /\ reads = {} /\ idx = 0 /\ ret = NoRet

\* encode: json.MarshalIndent and os.WriteFile
EncodeSnapshot ==
  /\ probe.result = "none"
  /\ fs' = WriteFile(fs, <<S_out>>, JsonData(MarshalIndent(snapshot)), defaultPerms).fs
  /\ probe' = [probe EXCEPT !.result = "encoded"]
  /\ UNCHANGED <<privileged, ignorePatterns, pc, args, patterns, snapshot, todo,
                 visited, reads, idx, ret>>

\* decode: os.ReadFile and json.Unmarshal
DecodeSnapshot ==
  /\ probe.result = "encoded"
  /\ snapshot' = Unmarshal(ReadFile(fs, <<S_out>>).data).snapshot
  /\ probe' = [probe EXCEPT !.result = "decoded"]
  /\ UNCHANGED <<fs, privileged, ignorePatterns, pc, args, patterns, todo,
                 visited, reads, idx, ret>>

NextCodec == EncodeSnapshot \/ DecodeSnapshot

SpecCodec == InitCodec /\ [][NextCodec]_vars

Decodes == probe.result = "encoded" /\ probe'.result = "decoded"

\* C13 as stated: decoding the encoded document of a well-formed snapshot
\* gives the snapshot back: version, entries, their order, and each entry's
\* path, content, directory flag and mode.
C13_Original == [][Decodes => snapshot' = snapshot]_vars

\* every byte of the string is part of valid UTF-8
ValidUTF8(text) == \A k \in 1..Len(text) : text[k] # "xFF"

AllValidUTF8(snap) ==
  /\ ValidUTF8(snap.Version)
  /\ \A k \in 1..Len(snap.Files) :
       ValidUTF8(snap.Files[k].Path) /\ ValidUTF8(snap.Files[k].Contents.text)

\* C13 amended: decoding the encoded document of a well-formed snapshot gives
\* back the same version, number and order of entries, and for each entry the
\* same path, directory flag and mode; the content is the same when it is
\* valid UTF-8 (empty included), and otherwise has U+FFFD in place of each
\* invalid byte.
C13_Amended ==
  [][Decodes =>
       /\ AllValidUTF8(snapshot) => snapshot' = snapshot
       /\ snapshot'.Version = snapshot.Version
       /\ Len(snapshot'.Files) = Len(snapshot.Files)
       /\ \A k \in 1..Len(snapshot.Files) :
            /\ snapshot'.Files[k].Path = snapshot.Files[k].Path
            /\ snapshot'.Files[k].IsDir = snapshot.Files[k].IsDir
            /\ snapshot'.Files[k].Mode = snapshot.Files[k].Mode
            /\ snapshot'.Files[k].Contents.pad = snapshot.Files[k].Contents.pad
            /\ snapshot'.Files[k].Contents.text =
                 [j \in 1..Len(snapshot.Files[k].Contents.text) |->
                    IF snapshot.Files[k].Contents.text[j] = "xFF" THEN "uFFFD"
                    ELSE snapshot.Files[k].Contents.text[j]]]_vars

\* a snapshot with an empty file of mode zero and a file with content and a
\* mode has been encoded and decoded, and is as it was
C13_Witness ==
  /\ probe.result = "decoded"
  /\ snapshot = ProjectSnapshot(version,
                  <<FileInfo(S_a_txt, EmptyStr, FALSE, 0),
                    FileInfo(S_d_b_txt, Str(<<"1">>, 0), FALSE, defaultPerms)>>)
  /\ fs[<<S_out>>].data.doc.files[1].has_contents = FALSE
  /\ fs[<<S_out>>].data.doc.files[1].has_mode = FALSE


(***************************************************************************)
(* Restore and the order of the entries.                                   *)
(***************************************************************************)
\* the loop of restoreProject over files from entry k on, up to its first
\* error (main_test.go:733-757)
RECURSIVE RestoreAll(_, _, _, _)
RestoreAll(f, destination, files, k) ==
  IF k > Len(files) THEN [fs |-> f, err |-> ""]
  ELSE LET r == restoreEntry(f, destination, files[k])
       IN IF r.err # "" THEN r ELSE RestoreAll(r.fs, destination, files, k + 1)

\* restoreProject has run its loop and returned
LoopErrors ==
  {"failed to create directory", "failed to create parent directory", "failed to write file"}

RestoreRan == pc = "idle" /\ ret.op = "restore" /\ ret.err \in LoopErrors \cup {""}

\* path a comes before path b in a depth-first walk in name order
RECURSIVE NamesLess(_, _)
NamesLess(a, b) ==
  IF b = <<>> THEN FALSE
  ELSE IF a = <<>> THEN TRUE
  ELSE IF a[1] = b[1] THEN NamesLess(Drop(a, 1), Drop(b, 1))
  ELSE StrLess(a[1], b[1])

\* the entries could be those of a capture, in some order: no path twice, and
\* a directory entry for the parent of every entry that is not at the top
CaptureLike(files) ==
  /\ \A i, j \in 1..Len(files) : files[i].Path = files[j].Path => i = j
  /\ \A i \in 1..Len(files) :
       Len(Names(files[i].Path)) > 1 =>
         \E j \in 1..Len(files) :
            files[j].IsDir /\ Names(files[j].Path) = Parent(Names(files[i].Path))

\* the entries in the order capture records them
CaptureOrder(files) ==
  LET n == Len(files)
      p == CHOOSE q \in [1..n -> 1..n] :
             /\ \A i, j \in 1..n : q[i] = q[j] => i = j
             /\ \A i \in 1..(n - 1) :
                  NamesLess(Names(files[q[i]].Path), Names(files[q[i + 1]].Path))
  IN [i \in 1..n |-> files[p[i]]]

\* the file system without the destination, and with the empty destination
WithoutDestination(f, destination) ==
  [q \in {r \in DOMAIN f : Take(r, Len(destination)) # destination} |-> f[q]]

FreshDestination(f, destination) ==
  MkdirAll(WithoutDestination(f, destination), destination, dirPerms).fs

\* the outcome of restoring the entries in capture order into the destination
InCaptureOrder ==
  RestoreAll(FreshDestination(fs, <<S_dst>>), <<S_dst>>, CaptureOrder(snapshot.Files), 1)

\* C14 as stated, for the snapshots whose restore in capture order succeeds:
\* when restoreProject has restored, into a destination that did not exist,
\* the entries of such a capture in any order, it has returned nil and the
\* file system (paths, directory flags, contents, permission bits) is the one
\* that restoring the entries in capture order gives.
C14_OrderIndependent ==
  (RestoreRan /\ args.p2 = S_dst /\ CaptureLike(snapshot.Files)
   /\ InCaptureOrder.err = "")
    => (ret.err = "" /\ fs = InCaptureOrder.fs)


(***************************************************************************)
(* Restore and errors.                                                     *)
(***************************************************************************)
\* this step is the loop body on the entry at idx
RestoresEntry == pc = "restore" /\ idx <= Len(snapshot.Files)

\* p is q or lies above it
IsPrefix(p, q) == Len(p) <= Len(q) /\ Take(q, Len(p)) = p

\* C15: the loop body handles the entry at idx and no other: nothing that
\* exists is removed, nothing but the entry's own path is changed, and what is
\* new lies on the entry's path; when the entry is not there afterwards the
\* loop ends; otherwise it goes on to the next entry or, on an
\* error, restoreProject returns that error with everything that existed left
\* as it was.  After the return the file system changes only with a new call
\* of restoreProject.
C15_StopsAtFirstError ==
  [][/\ RestoresEntry =>
          /\ \A q \in DOMAIN fs :
               q \in DOMAIN fs' /\ (q # EntryPath => fs'[q] = fs[q])
          /\ \A q \in DOMAIN fs' \ DOMAIN fs : IsPrefix(q, EntryPath)
          /\ (\/ EntryPath \notin DOMAIN fs'
              \/ fs'[EntryPath].dir # snapshot.Files[idx].IsDir
              \/ /\ ~snapshot.Files[idx].IsDir
                 /\ fs'[EntryPath].data # Bytes(snapshot.Files[idx].Contents.text,
                                               snapshot.Files[idx].Contents.pad))
               => pc' = "idle"
          /\ \/ pc' = "restore" /\ idx' = idx + 1 /\ snapshot' = snapshot
             \/ /\ pc' = "idle" /\ ret'.op = "restore" /\ ret'.err \in LoopErrors
                /\ \A q \in DOMAIN fs : fs'[q] = fs[q]
     /\ pc = "idle" => (fs' = fs \/ CallsRestore)]_vars

\* restoreProject has failed on its first entry, d/d, after creating dst/d;
\* the second entry, a.txt, is not there
C15_Witness ==
  /\ RestoreRan /\ ret.err = "failed to create directory"
  /\ args.p2 = S_dst
  /\ Len(snapshot.Files) = 2
  /\ snapshot.Files[1].Path = S_d_d /\ snapshot.Files[2].Path = S_a_txt
  /\ <<S_dst, S_d>> \in DOMAIN fs
  /\ <<S_dst, S_d, S_d>> \notin DOMAIN fs
  /\ <<S_dst, S_a_txt>> \notin DOMAIN fs


(***************************************************************************)
(* The order of a captured snapshot.                                       *)
(***************************************************************************)
\* C16: in the snapshot of a successful capture the paths come in the order
\* of a depth-first walk that takes the names of each directory in lexical
\* order; the root is no entry; and every entry below a directory other than
\* the root comes after a directory entry for that directory.
C16_DepthFirstLexical ==
  CloneOk =>
    /\ \A k \in 1..(Len(snapshot.Files) - 1) :
         NamesLess(Names(snapshot.Files[k].Path), Names(snapshot.Files[k + 1].Path))
    /\ \A k \in 1..Len(snapshot.Files) :
         /\ snapshot.Files[k].Path \notin {<<>>, <<".">>}
         /\ Names(snapshot.Files[k].Path) # <<>>
         /\ Len(Names(snapshot.Files[k].Path)) > 1 =>
              \E j \in 1..(k - 1) :
                 /\ snapshot.Files[j].IsDir
                 /\ Names(snapshot.Files[j].Path) = Parent(Names(snapshot.Files[k].Path))
    /\ PathList(Unmarshal(fs[Names(args.p2)].data).snapshot) = PathList(snapshot)

\* a capture has recorded a.txt, d and d/b.txt, in this order
C16_Witness ==
  /\ CloneOk
  /\ PathList(snapshot) = <<S_a_txt, S_d, S_d_b_txt>>
  /\ snapshot.Files[2].IsDir

=============================================================================
